---- MODULE Spec2Model ----
(***************************************************************************)
(* Per-timestep orientation, boundary and life-cycle logic of the larval   *)
(* dispersal models FishLarvaeOrient (fishlarvaeorient.py) and             *)
(* LobsterLarvae (lobsterlarvae.py).                                       *)
(*                                                                         *)
(* Numbers are integers: positions are grid cells (lon, lat), depths are   *)
(* metres (z negative down), ages are seconds, speeds are cm/s (the /100   *)
(* of swimming_speed is a change of unit), angles are integer fractions of *)
(* a quarter turn.  The swim-velocity buffers hold, per slot, the pair     *)
(* <<speed, theta>> of the product the code writes: u_velocity[i] stands   *)
(* for speed*cos(theta) and v_velocity[i] for speed*sin(theta).            *)
(* Arrays are functions on 0..n-1, as in the source.                       *)
(***************************************************************************)
EXTENDS Integers, Sequences, FiniteSets, TLC

(***************************************************************************)
(* Bounds of the model                                                     *)
(***************************************************************************)
\* particles scheduled for release
NumElements == 2
\* iterations of the run loop
MaxSteps == 3
\* seeding positions are cells 0..MaxLon
MaxLon == 3
\* particles are seeded at z in -MaxSeedDepth..0
MaxSeedDepth == 1
\* speed of the strongest current, cm/s
MaxCurrent == 3

\* an optional value is a set with at most one element; None is the empty set
None == {}

Some(x) == {x}

Val(o) == CHOOSE x \in o : TRUE

(***************************************************************************)
(* Small arithmetic helpers                                                *)
(***************************************************************************)
Abs(x) == IF x < 0 THEN -x ELSE x

Sgn(x) == IF x < 0 THEN -1 ELSE IF x > 0 THEN 1 ELSE 0

RECURSIVE Pow(_, _)
Pow(b, e) == IF e = 0 THEN 1 ELSE b * Pow(b, e - 1)

RECURSIVE ISqrtFrom(_, _)
ISqrtFrom(n, r) == IF (r + 1) * (r + 1) > n THEN r ELSE ISqrtFrom(n, r + 1)

ISqrt(n) == ISqrtFrom(n, 0)

\* length of a 0-based array
ALen(a) == Cardinality(DOMAIN a)

\* np.where(mask)[0]: the indices where mask holds, in increasing order
RECURSIVE WhereFrom(_, _, _)
WhereFrom(mask, i, n) ==
    IF i >= n THEN << >>
    ELSE IF mask[i] THEN <<i>> \o WhereFrom(mask, i + 1, n)
    ELSE WhereFrom(mask, i + 1, n)

Where(mask) == WhereFrom(mask, 0, ALen(mask))

(***************************************************************************)
(* Environment provider (external reader): fields by position.  The coast  *)
(* lies to the west: cells with lon <= 0 are land; the sea floor is at the *)
(* surface up to lon = 1, 1 m deep at lon = 2 and 2 m deep further east.   *)
(***************************************************************************)
land_binary_mask(lon, lat) == IF lon <= 0 THEN 1 ELSE 0

sea_floor_depth_below_sea_level(lon, lat) ==
    IF lon <= 1 THEN 0 ELSE IF lon = 2 THEN 1 ELSE 2

\* currents (x, y) in cm/s that a reader can return at a position and time:
\* none or a westward current; none, a westward or a weak northward current
ZonalCurrents == {<<0, 0>>, <<-MaxCurrent, 0>>}

AllCurrents == {<<0, 0>>, <<-MaxCurrent, 0>>, <<0, 1>>}

(***************************************************************************)
(* Habitat (habitat()): one polygon covering the cells lon in 0..1, which  *)
(* overlaps the land cell lon = 0; its centroid is (1, 0).                 *)
(***************************************************************************)
centers_habitat == [i \in 0 .. 0 |-> <<1, 0>>]

\* pt.within(self.multiShp)
multiShp(lon, lat) == lon \in 0 .. 1 /\ lat \in -1 .. 1

(***************************************************************************)
(* Configuration (read-only during a run) and state                        *)
(***************************************************************************)
\* self.time_step.total_seconds()
TimeStep == 1

Statuses ==
    {"active", "settled_on_coast", "settled_on_bottom", "home_sweet_home",
     "died", "outside", "seeded_on_land"}

VARIABLES
    config,             \* get_config(...) values, validity_domain, readers
    elements,           \* self.elements: array of particle records
    deactivated,        \* particles removed from the batch: ID -> cause
    environment,        \* self.environment: per-slot arrays
    previous_lon,       \* self.previous_lon, indexed by ID - 1
    previous_lat,       \* self.previous_lat, indexed by ID - 1
    newly_seeded_IDs,   \* self.newly_seeded_IDs
    u_velocity,         \* self.u_velocity: <<speed, theta>> per slot
    v_velocity,         \* self.v_velocity: <<speed, theta>> per slot
    outcome,            \* per slot, what the last boundary check did to it
    num_released,       \* IDs 1..num_released have been released
    steps_calculation,  \* iterations of the run loop done
    seed_plan,          \* where the scheduled particles may be seeded
    calls,              \* the methods update() has called in this timestep
    pc                  \* position in the run loop

vars ==
    <<config, elements, deactivated, environment, previous_lon, previous_lat,
      newly_seeded_IDs, u_velocity, v_velocity, outcome, num_released,
      steps_calculation, seed_plan, calls, pc>>

\* the batch has n slots
N == ALen(elements)

Slots == DOMAIN elements

EmptyArray == [i \in {} |-> 0]

\* the array a with the slots of keep, in order, and nothing else
Compress(a, keep) == [k \in 0 .. Len(keep) - 1 |-> a[keep[k + 1]]]

\* the array a followed by the array b
Concat(a, b) ==
    [k \in 0 .. ALen(a) + ALen(b) - 1 |->
        IF k < ALen(a) THEN a[k] ELSE b[k - ALen(a)]]

(***************************************************************************)
(* Deactivation primitive of the base model: schedules the particles of    *)
(* the mask for removal with the given cause; a particle that already has  *)
(* a cause keeps it.                                                       *)
(***************************************************************************)
deactivate_elements(els, indices, reason) ==
    [i \in DOMAIN els |->
        IF indices[i] /\ els[i].status = "active"
        THEN [els[i] EXCEPT !.status = reason]
        ELSE els[i]]

(***************************************************************************)
(* interact_with_seafloor                                                  *)
(***************************************************************************)
\* self.sea_floor_depth(): the depth at the position of every slot
sea_floor_depth(els) ==
    [i \in DOMAIN els |->
        sea_floor_depth_below_sea_level(els[i].lon, els[i].lat)]

\* np.logical_and(z < -sea_floor_depth, age_seconds > min_settlement_age)
BelowAndStrictlyOlder(cfg, els) ==
    [i \in DOMAIN els |->
        els[i].z < -sea_floor_depth(els)[i]
        /\ els[i].age_seconds > cfg.min_settlement_age_seconds]

below_and_older(cfg, els) ==
    [i \in DOMAIN els |->
        els[i].z < -sea_floor_depth(els)[i]
        /\ els[i].age_seconds >= cfg.min_settlement_age_seconds]

\* below the seafloor and more than one timestep younger
BelowAndMuchYounger(cfg, els) ==
    [i \in DOMAIN els |->
        els[i].z < -sea_floor_depth(els)[i]
        /\ els[i].age_seconds + TimeStep < cfg.min_settlement_age_seconds]

below_and_younger(cfg, els) ==
    [i \in DOMAIN els |->
        els[i].z < -sea_floor_depth(els)[i]
        /\ els[i].age_seconds < cfg.min_settlement_age_seconds]

\* the seafloor check that settles the older particles in every
\* configuration
InteractWithSeafloorSettling(cfg, els) ==
    IF ALen(els) = 0 THEN els
    ELSE IF ~cfg.seafloor_reader THEN els
    ELSE
        LET depth == sea_floor_depth(els)
            lifted ==
                [i \in DOMAIN els |->
                    IF below_and_younger(cfg, els)[i]
                    THEN [els[i] EXCEPT !.z = -depth[i]]
                    ELSE els[i]]
        IN  deactivate_elements(lifted, below_and_older(cfg, els),
                                "settled_on_bottom")

interact_with_seafloor(cfg, els) ==
    IF ALen(els) = 0 THEN els
    ELSE IF ~cfg.seafloor_reader THEN els
    ELSE
        LET depth == sea_floor_depth(els)
            older == below_and_older(cfg, els)
            younger == below_and_younger(cfg, els)
            lifted ==
                [i \in DOMAIN els |->
                    IF younger[i]
                    THEN [els[i] EXCEPT !.z = -depth[i]]
                    ELSE els[i]]
        IN  IF cfg.settlement_in_habitat = FALSE
            THEN deactivate_elements(lifted, older, "settled_on_bottom")
            ELSE [i \in DOMAIN els |->
                    IF older[i]
                    THEN [lifted[i] EXCEPT !.z = -depth[i]]
                    ELSE lifted[i]]

(***************************************************************************)
(* interact_with_coastline: the new batch and the new land mask            *)
(***************************************************************************)
\* the slots moved back to previous_lon/lat at the slot index
MoveBackBySlot(els, which, plon, plat) ==
    [i \in DOMAIN els |->
        IF which[i]
        THEN [els[i] EXCEPT !.lon = plon[i], !.lat = plat[i]]
        ELSE els[i]]

\* the slots moved back and made active again
MoveBackReactivating(els, which, plon, plat) ==
    [i \in DOMAIN els |->
        IF which[i]
        THEN [els[i] EXCEPT !.lon = plon[els[i].ID - 1],
                            !.lat = plat[els[i].ID - 1],
                            !.status = "active"]
        ELSE els[i]]

\* move the slots of the mask back to previous_lon/lat at index ID - 1
MoveBack(els, which, plon, plat) ==
    [i \in DOMAIN els |->
        IF which[i]
        THEN [els[i] EXCEPT !.lon = plon[els[i].ID - 1],
                            !.lat = plat[els[i].ID - 1]]
        ELSE els[i]]

\* the land mask left as it is
KeepMask(mask, which) == mask

ClearMask(mask, which) ==
    [i \in DOMAIN mask |-> IF which[i] THEN 0 ELSE mask[i]]

\* (land_binary_mask == 1) & (age_seconds <= min_settlement_age_seconds)
OnLandAndNotOlder(cfg, els, mask) ==
    [i \in DOMAIN els |->
        mask[i] = 1
        /\ els[i].age_seconds <= cfg.min_settlement_age_seconds]

\* on land and younger, when no other particle of the batch is on land
OnLandAndYoungerAlone(cfg, els, mask) ==
    [i \in DOMAIN els |->
        /\ mask[i] = 1
        /\ els[i].age_seconds < cfg.min_settlement_age_seconds
        /\ \A k \in DOMAIN els : k # i => mask[k] # 1]

on_land_and_younger(cfg, els, mask) ==
    [i \in DOMAIN els |->
        mask[i] = 1
        /\ els[i].age_seconds < cfg.min_settlement_age_seconds]

\* on land with the age of the seeding
SeededOnLandAtAgeZero(els, mask) ==
    [i \in DOMAIN els |-> mask[i] = 1 /\ els[i].age_seconds = 0]

\* (land_binary_mask == 1) & (age_seconds == time_step.total_seconds())
seeded_on_land(els, mask) ==
    [i \in DOMAIN els |-> mask[i] = 1 /\ els[i].age_seconds = TimeStep]

interact_with_coastline(cfg, els, mask, plon, plat, seeded) ==
    IF ~cfg.land_reader THEN [elements |-> els, land_binary_mask |-> mask]
    ELSE
        LET els1 ==
                IF seeded # None
                THEN deactivate_elements(els, seeded_on_land(els, mask),
                                         "seeded_on_land")
                ELSE els
            on_land == [i \in DOMAIN els |-> mask[i] = 1]
        IN  IF \A i \in DOMAIN els : ~on_land[i]
            THEN [elements |-> els1, land_binary_mask |-> mask]
            ELSE IF cfg.settlement_in_habitat = TRUE
            THEN [elements |-> MoveBack(els1, on_land, plon, plat),
                  land_binary_mask |-> ClearMask(mask, on_land)]
            ELSE IF cfg.min_settlement_age_seconds = 0
            THEN [elements |-> MoveBack(els1, on_land, plon, plat),
                  land_binary_mask |-> ClearMask(mask, on_land)]
            ELSE
                LET younger == on_land_and_younger(cfg, els1, mask)
                    els2 == MoveBack(els1, younger, plon, plat)
                    mask2 == ClearMask(mask, younger)
                IN  [elements |->
                        deactivate_elements(els2,
                            [i \in DOMAIN els |->
                                mask2[i] = 1
                                /\ els2[i].age_seconds
                                     >= cfg.min_settlement_age_seconds],
                            "settled_on_coast"),
                     land_binary_mask |-> mask2]

(***************************************************************************)
(* interact_with_habitat: the new batch and the new land mask              *)
(***************************************************************************)
\* the habitat check applied only to particles that are not below the floor
InteractWithHabitatAboveFloor(cfg, els, mask) ==
    LET mask6 ==
            [i \in DOMAIN els |->
                IF els[i].age_seconds >= cfg.min_settlement_age_seconds
                   /\ multiShp(els[i].lon, els[i].lat)
                   /\ ~(els[i].z < -sea_floor_depth(els)[i])
                THEN 6 ELSE mask[i]]
    IN  [elements |->
            deactivate_elements(els, [i \in DOMAIN els |-> mask6[i] = 6],
                                "home_sweet_home"),
         land_binary_mask |-> mask6]

\* the habitat check without the settlement age
InteractWithHabitatAnyAge(cfg, els, mask) ==
    LET mask6 ==
            [i \in DOMAIN els |->
                IF multiShp(els[i].lon, els[i].lat) THEN 6 ELSE mask[i]]
    IN  [elements |->
            deactivate_elements(els, [i \in DOMAIN els |-> mask6[i] = 6],
                                "home_sweet_home"),
         land_binary_mask |-> mask6]

interact_with_habitat(cfg, els, mask) ==
    LET mask6 ==
            [i \in DOMAIN els |->
                IF els[i].age_seconds >= cfg.min_settlement_age_seconds
                   /\ multiShp(els[i].lon, els[i].lat)
                THEN 6 ELSE mask[i]]
    IN  [elements |->
            deactivate_elements(els, [i \in DOMAIN els |-> mask6[i] = 6],
                                "home_sweet_home"),
         land_binary_mask |-> mask6]

(***************************************************************************)
(* increase_age_and_retire                                                 *)
(***************************************************************************)
\* age_seconds > max_age_seconds
ExceedsMaxAge(cfg, els) ==
    [i \in DOMAIN els |-> els[i].age_seconds > Val(cfg.max_age_seconds)]

\* self.elements.age_seconds >= self.get_config('drift:max_age_seconds')
ReachesMaxAge(cfg, els) ==
    [i \in DOMAIN els |-> els[i].age_seconds >= Val(cfg.max_age_seconds)]

\* self.elements.lon > W
EastOf(els, W) == [i \in DOMAIN els |-> els[i].lon > W]

\* self.elements.lon <= W
WestOfOrAt(els, W) == [i \in DOMAIN els |-> els[i].lon <= W]

\* self.elements.lon < W
WestOf(els, W) == [i \in DOMAIN els |-> els[i].lon < W]

\* no ageing before update()
AddNoAge(els) == els

\* ageing that stops at two timesteps
AddAgeUpToTwo(els) ==
    [i \in DOMAIN els |->
        IF els[i].age_seconds < 2 * TimeStep
        THEN [els[i] EXCEPT !.age_seconds = @ + TimeStep]
        ELSE els[i]]

\* ageing that skips the particles already deactivated
AddAgeToActive(els) ==
    [i \in DOMAIN els |->
        IF els[i].status = "active"
        THEN [els[i] EXCEPT !.age_seconds = @ + TimeStep]
        ELSE els[i]]

\* self.elements.age_seconds += self.time_step.total_seconds()
AddAge(els) ==
    [i \in DOMAIN els |-> [els[i] EXCEPT !.age_seconds = @ + TimeStep]]

increase_age_and_retire(cfg, els) ==
    LET aged == AddAge(els)
        retired ==
            IF cfg.max_age_seconds # None
            THEN deactivate_elements(aged, ReachesMaxAge(cfg, aged), "died")
            ELSE aged
        W == Val(cfg.validity_domain)[1]
        E == Val(cfg.validity_domain)[2]
        S == Val(cfg.validity_domain)[3]
        Nb == Val(cfg.validity_domain)[4]
        outW ==
            IF W # None
            THEN deactivate_elements(retired, WestOf(retired, Val(W)),
                                     "outside")
            ELSE retired
        outE ==
            IF E # None
            THEN deactivate_elements(outW,
                    [i \in DOMAIN els |-> outW[i].lon > Val(E)], "outside")
            ELSE outW
        outS ==
            IF S # None
            THEN deactivate_elements(outE,
                    [i \in DOMAIN els |-> outE[i].lat < Val(S)], "outside")
            ELSE outE
        outN ==
            IF Nb # None
            THEN deactivate_elements(outS,
                    [i \in DOMAIN els |-> outS[i].lat > Val(Nb)], "outside")
            ELSE outS
    IN  IF cfg.validity_domain # None THEN outN ELSE retired

(***************************************************************************)
(* maximum_depth: defined by the model class; update() does not call it    *)
(***************************************************************************)
maximum_depth(cfg, els) ==
    IF cfg.maximum_depth # None
    THEN [i \in DOMAIN els |->
            IF els[i].z < Val(cfg.maximum_depth)
            THEN [els[i] EXCEPT !.z = Val(cfg.maximum_depth)]
            ELSE els[i]]
    ELSE els

(***************************************************************************)
(* vertical_swimming (ontogenetic vertical migration): the four age bands  *)
(* are applied one after the other, each writing terminal_velocity for the *)
(* particles it selects                                                    *)
(***************************************************************************)
early_stage(cfg, age) == age < cfg.pre_flexion

pre_flexion(cfg, age) == age >= cfg.pre_flexion /\ age < cfg.flexion

flexion(cfg, age) == age >= cfg.flexion /\ age < cfg.post_flexion

post_flexion(cfg, age) == age >= cfg.post_flexion

\* - np.sign(z - depth) * vertical_velocity
TowardsDepth(z, depth, vertical_velocity) ==
    -Sgn(z - depth) * vertical_velocity

vertical_swimming(cfg, els) ==
    LET vertical_velocity == Abs(Val(cfg.vertical_migration_speed_constant))
        w1 == [i \in DOMAIN els |->
                IF early_stage(cfg, els[i].age_seconds)
                THEN TowardsDepth(els[i].z, cfg.depth_early_stage,
                                  vertical_velocity)
                ELSE els[i].terminal_velocity]
        w2 == [i \in DOMAIN els |->
                IF pre_flexion(cfg, els[i].age_seconds)
                THEN TowardsDepth(els[i].z, cfg.depth_pre_flexion,
                                  vertical_velocity)
                ELSE w1[i]]
        w3 == [i \in DOMAIN els |->
                IF flexion(cfg, els[i].age_seconds)
                THEN TowardsDepth(els[i].z, cfg.depth_flexion,
                                  vertical_velocity)
                ELSE w2[i]]
        w4 == [i \in DOMAIN els |->
                IF post_flexion(cfg, els[i].age_seconds)
                THEN TowardsDepth(els[i].z, cfg.depth_post_flexion,
                                  vertical_velocity)
                ELSE w3[i]]
    IN  [i \in DOMAIN els |-> [els[i] EXCEPT !.terminal_velocity = w4[i]]]

(***************************************************************************)
(* Vertical movement of the base model: vertical_advection moves a         *)
(* particle by the vertical current dz, vertical_mixing and                *)
(* vertical_buoyancy move it one cell in the direction of its              *)
(* terminal_velocity; a particle stays at or below the surface             *)
(***************************************************************************)
vertical_advection(els, dz) ==
    [i \in DOMAIN els |->
        [els[i] EXCEPT !.z = IF @ + dz[i] > 0 THEN 0 ELSE @ + dz[i]]]

vertical_buoyancy(els) ==
    [i \in DOMAIN els |->
        [els[i] EXCEPT
            !.z = IF @ + Sgn(els[i].terminal_velocity) > 0 THEN 0
                  ELSE @ + Sgn(els[i].terminal_velocity)]]

(***************************************************************************)
(* Angles.  A quarter turn is QuarterTurn(cfg) units, chosen so that the   *)
(* product d * (theta_current - theta_pref) of the direct heading is an    *)
(* integer; headings are kept modulo a full turn (cos and sin have that    *)
(* period).                                                                *)
(***************************************************************************)
QuarterTurn(cfg) ==
    2 * (IF cfg.max_orient_distance > 0 THEN cfg.max_orient_distance ELSE 1)

NormAngle(cfg, t) == t % (4 * QuarterTurn(cfg))

\* samples of np.random.vonmises(0, 5): the quarter turns of config.turns
VonMises(cfg) == {k * QuarterTurn(cfg) : k \in cfg.turns}

\* np.arctan2(y, x), to the nearest eighth of a turn
arctan2(cfg, y, x) ==
    LET q == QuarterTurn(cfg)
    IN  CASE x > 0 /\ y = 0 -> 0
          [] x > 0 /\ y > 0 -> q \div 2
          [] x = 0 /\ y > 0 -> q
          [] x < 0 /\ y > 0 -> q + q \div 2
          [] x < 0 /\ y = 0 -> 2 * q
          [] x < 0 /\ y < 0 -> -(q + q \div 2)
          [] x = 0 /\ y < 0 -> -q
          [] x > 0 /\ y < 0 -> -(q \div 2)
          [] OTHER -> 0

\* on a grid of cells small against the radius of the earth
\* X = cos(rlat2)*sin(rlon2-rlon1) has the sign of lon2 - lon1 and
\* Y = cos(rlat1)*sin(rlat2)-sin(rlat1)*cos(rlat2)*cos(rlon2-rlon1) the sign
\* of lat2 - lat1
haversine_angle(cfg, lon1, lat1, lon2, lat2) ==
    arctan2(cfg, lat2 - lat1, lon2 - lon1)

\* self.ball_centers.query(..., k=1) times 6371: the distance to the nearest
\* centroid and its index
HabitatDistance(lon, lat, c) ==
    ISqrt((centers_habitat[c][1] - lon) * (centers_habitat[c][1] - lon)
          + (centers_habitat[c][2] - lat) * (centers_habitat[c][2] - lat))

habitat_id(lon, lat) ==
    CHOOSE c \in DOMAIN centers_habitat :
        \A c2 \in DOMAIN centers_habitat :
            \/ HabitatDistance(lon, lat, c) < HabitatDistance(lon, lat, c2)
            \/ (HabitatDistance(lon, lat, c) = HabitatDistance(lon, lat, c2)
                /\ c <= c2)

habitat_near(lon, lat) == HabitatDistance(lon, lat, habitat_id(lon, lat))

(***************************************************************************)
(* swimming_speed, in cm/s.  The source computes                           *)
(*   hatch + (settle - hatch) ** (log(age) / log(max_age));                *)
(* for settle - hatch = max_age ** k this is hatch + age ** k (also at     *)
(* age 0, where log(0) = -inf gives 0 for k >= 1 and 1 for k = 0).         *)
(***************************************************************************)
MaxExponent == 2

LogBase(b, x) == CHOOSE k \in 0 .. MaxExponent : Pow(b, k) = x

swimming_speed(cfg, age) ==
    cfg.hatch_swimming_speed
    + Pow(age, LogBase(Val(cfg.max_age_seconds),
                       cfg.settle_swimming_speed - cfg.hatch_swimming_speed))

(***************************************************************************)
(* Orientation: each operator gives the new u_velocity and v_velocity      *)
(* buffers (the same <<speed, theta>> is written to both); ti holds the    *)
(* von Mises sample drawn for each slot.                                   *)
(***************************************************************************)
\* the buffer of the previous timestep, kept where it has a slot
CarriedOverSwimming(els) ==
    [i \in DOMAIN els |->
        IF i \in DOMAIN u_velocity THEN u_velocity[i] ELSE <<0, 0>>]

reset_horizontal_swimming(els) == [i \in DOMAIN els |-> <<0, 0>>]

old_enough(cfg, els) ==
    [i \in DOMAIN els |-> els[i].age_seconds >= cfg.beginning_orientation]

\* d = 1 - (habitat_near[i][0]*6371/max_orient_distance), kept as the
\* fraction num / den; 0 / 0 is the NaN the division gives
TurningStrength(cfg, dist) ==
    [num |-> cfg.max_orient_distance - dist, den |-> cfg.max_orient_distance]

\* the direct heading of slot j; the previous position is read at the slot
\* index (self.previous_lon[old_enough][i])
DirectVelocity(cfg, els, plon, plat, j, ti) ==
    LET pt_lon == els[j].lon
        pt_lat == els[j].lat
        pt_lon_old == plon[j]
        pt_lat_old == plat[j]
        c == habitat_id(pt_lon, pt_lat)
        dist == habitat_near(pt_lon, pt_lat)
        theta_pref ==
            -haversine_angle(cfg, pt_lon, pt_lat,
                             centers_habitat[c][1], centers_habitat[c][2])
        theta_current ==
            haversine_angle(cfg, pt_lon_old, pt_lat_old, pt_lon, pt_lat)
        d == TurningStrength(cfg, dist)
        \* mu = -d * (theta_current - theta_pref)
        mu == -(d.num * ((theta_current - theta_pref) \div d.den))
        theta == ti - theta_current - mu
    IN  <<swimming_speed(cfg, els[j].age_seconds), NormAngle(cfg, theta)>>

\* the rheotaxis velocity without the cap at the speed of the current
RheotaxisVelocityUncapped(cfg, els, env, j, ti) ==
    LET x == env.x_sea_water_velocity[j]
        y == env.y_sea_water_velocity[j]
        theta == -arctan2(cfg, y, x) + ti
    IN  <<swimming_speed(cfg, els[j].age_seconds), NormAngle(cfg, theta)>>

RheotaxisVelocity(cfg, els, env, j, ti) ==
    LET x == env.x_sea_water_velocity[j]
        y == env.y_sea_water_velocity[j]
        thetaRheo == -arctan2(cfg, y, x)
        theta == thetaRheo + ti
        uv == ISqrt(x * x + y * y)
        norm_swim == Abs(swimming_speed(cfg, els[j].age_seconds))
    IN  IF norm_swim < uv
        THEN <<swimming_speed(cfg, els[j].age_seconds), NormAngle(cfg, theta)>>
        ELSE <<uv, NormAngle(cfg, theta)>>

CardinalVelocity(cfg, els, j, ti) ==
    LET thetaCard == (cfg.cardinal_heading * QuarterTurn(cfg)) \div 90
        theta == thetaCard + ti
    IN  <<swimming_speed(cfg, els[j].age_seconds), NormAngle(cfg, theta)>>

direct_orientation_habitat(cfg, els, plon, plat, vel, ti) ==
    [j \in DOMAIN els |->
        IF old_enough(cfg, els)[j]
           /\ ~(habitat_near(els[j].lon, els[j].lat) > cfg.max_orient_distance)
        THEN DirectVelocity(cfg, els, plon, plat, j, ti[j])
        ELSE vel[j]]

cardinal_orientation(cfg, els, vel, ti) ==
    [j \in DOMAIN els |->
        IF old_enough(cfg, els)[j]
        THEN CardinalVelocity(cfg, els, j, ti[j])
        ELSE vel[j]]

rheotaxis_orientation(cfg, els, env, vel, ti) ==
    [j \in DOMAIN els |->
        IF old_enough(cfg, els)[j]
        THEN RheotaxisVelocity(cfg, els, env, j, ti[j])
        ELSE vel[j]]

\* the second pass without the test of the detection distance
MixOrientationAnyDistance(cfg, els, env, plon, plat, vel, ti, ti2) ==
    LET first ==
            [j \in DOMAIN els |->
                IF old_enough(cfg, els)[j]
                THEN IF cfg.orientation = "continuous_1"
                     THEN RheotaxisVelocity(cfg, els, env, j, ti[j])
                     ELSE IF cfg.orientation = "continuous_2"
                     THEN CardinalVelocity(cfg, els, j, ti[j])
                     ELSE vel[j]
                ELSE vel[j]]
    IN  [j \in DOMAIN els |->
            IF els[j].age_seconds >= cfg.min_settlement_age_seconds
            THEN DirectVelocity(cfg, els, plon, plat, j, ti2[j])
            ELSE first[j]]

\* ti is drawn in the first pass, ti2 in the second
mix_orientation(cfg, els, env, plon, plat, vel, ti, ti2) ==
    LET first ==
            [j \in DOMAIN els |->
                IF old_enough(cfg, els)[j]
                THEN IF cfg.orientation = "continuous_1"
                     THEN RheotaxisVelocity(cfg, els, env, j, ti[j])
                     ELSE IF cfg.orientation = "continuous_2"
                     THEN CardinalVelocity(cfg, els, j, ti[j])
                     ELSE vel[j]
                ELSE vel[j]]
        looking_for_reef ==
            [j \in DOMAIN els |->
                els[j].age_seconds >= cfg.min_settlement_age_seconds]
    IN  [j \in DOMAIN els |->
            IF looking_for_reef[j]
               /\ habitat_near(els[j].lon, els[j].lat)
                    < cfg.max_orient_distance
            THEN DirectVelocity(cfg, els, plon, plat, j, ti2[j])
            ELSE first[j]]

\* the buffers after the orientation selected by update()
Orientation(cfg, els, env, plon, plat, ti, ti2) ==
    LET zero == reset_horizontal_swimming(els)
    IN  CASE cfg.orientation = "direct" ->
                direct_orientation_habitat(cfg, els, plon, plat, zero, ti)
          [] cfg.orientation = "rheotaxis" ->
                rheotaxis_orientation(cfg, els, env, zero, ti)
          [] cfg.orientation = "cardinal" ->
                cardinal_orientation(cfg, els, zero, ti)
          [] cfg.orientation \in {"continuous_1", "continuous_2"} ->
                mix_orientation(cfg, els, env, plon, plat, zero, ti, ti2)

\* does the orientation of this step raise?  swimming_speed takes the log
\* of drift:max_age_seconds; direct and continuous query self.ball_centers
OrientationRaises(cfg, els) ==
    \/ /\ cfg.orientation \in {"direct", "continuous_1", "continuous_2"}
       /\ ~cfg.habitat_loaded
       /\ \/ cfg.orientation = "direct"
             /\ \E j \in DOMAIN els : old_enough(cfg, els)[j]
          \/ cfg.orientation # "direct"
             /\ \E j \in DOMAIN els :
                    els[j].age_seconds >= cfg.min_settlement_age_seconds
    \/ /\ cfg.max_age_seconds = None
       /\ \E j \in DOMAIN els :
            \/ /\ cfg.orientation # "direct"
               /\ old_enough(cfg, els)[j]
            \/ /\ cfg.orientation = "direct"
               /\ old_enough(cfg, els)[j]
               /\ ~(habitat_near(els[j].lon, els[j].lat)
                      > cfg.max_orient_distance)
            \/ /\ cfg.orientation \in {"continuous_1", "continuous_2"}
               /\ els[j].age_seconds >= cfg.min_settlement_age_seconds
               /\ habitat_near(els[j].lon, els[j].lat)
                    < cfg.max_orient_distance

(***************************************************************************)
(* Position update of the base model (update_positions, and the advection  *)
(* by the current): a particle moves one cell per step along each axis on  *)
(* which its velocity is not zero.                                         *)
(***************************************************************************)
CosSign(cfg, theta) ==
    LET q == QuarterTurn(cfg)
        t == NormAngle(cfg, theta)
    IN  IF t < q \/ t > 3 * q THEN 1 ELSE IF t = q \/ t = 3 * q THEN 0 ELSE -1

SinSign(cfg, theta) ==
    LET q == QuarterTurn(cfg)
        t == NormAngle(cfg, theta)
    IN  IF t = 0 \/ t = 2 * q THEN 0 ELSE IF t < 2 * q THEN 1 ELSE -1

\* the swim displacement applied a second time
UpdatePositionsTwice(cfg, els, u, v) ==
    [i \in DOMAIN els |->
        [els[i] EXCEPT
            !.lon = @ + 2 * Sgn(u[i][1]) * CosSign(cfg, u[i][2]),
            !.lat = @ + 2 * Sgn(v[i][1]) * SinSign(cfg, v[i][2])]]

update_positions(cfg, els, u, v) ==
    [i \in DOMAIN els |->
        [els[i] EXCEPT
            !.lon = @ + Sgn(u[i][1]) * CosSign(cfg, u[i][2]),
            !.lat = @ + Sgn(v[i][1]) * SinSign(cfg, v[i][2])]]

advect_ocean_current(els, env) ==
    [i \in DOMAIN els |->
        [els[i] EXCEPT !.lon = @ + Sgn(env.x_sea_water_velocity[i]),
                       !.lat = @ + Sgn(env.y_sea_water_velocity[i])]]

(***************************************************************************)
(* The run loop of the base model.  One iteration: release, age and        *)
(* retire, seafloor, environment, coastline, seafloor, removal of the      *)
(* deactivated particles, record of the present positions, update().       *)
(***************************************************************************)
NoOutcome == [lifted |-> FALSE, reverted |-> FALSE, draws |-> 0]

NewElement(id, lon, z) ==
    [ID |-> id, lon |-> lon, lat |-> 0, z |-> z, age_seconds |-> 0,
     status |-> "active", terminal_velocity |-> 0]

\* release_elements: the next n scheduled particles enter the batch, and
\* store_present_positions(IDs, lons, lats) records where they were seeded
Release ==
    /\ pc = "release"
    /\ \E n \in 0 .. NumElements - num_released :
        \E lons \in [0 .. n - 1 -> seed_plan.lons],
           zs \in [0 .. n - 1 -> seed_plan.depths] :
            LET new == [k \in 0 .. n - 1 |->
                            NewElement(num_released + 1 + k, lons[k], -zs[k])]
            IN  /\ (num_released = 0 => n > 0)
                /\ elements' = Concat(elements, new)
                /\ environment' =
                     [land_binary_mask |->
                        Concat(environment.land_binary_mask,
                               [k \in 0 .. n - 1 |-> 0]),
                      x_sea_water_velocity |->
                        Concat(environment.x_sea_water_velocity,
                               [k \in 0 .. n - 1 |-> 0]),
                      y_sea_water_velocity |->
                        Concat(environment.y_sea_water_velocity,
                               [k \in 0 .. n - 1 |-> 0])]
                /\ outcome' = [i \in 0 .. N + n - 1 |-> NoOutcome]
                /\ previous_lon' =
                     [k \in DOMAIN previous_lon |->
                        IF k \in num_released .. num_released + n - 1
                        THEN lons[k - num_released] ELSE previous_lon[k]]
                /\ previous_lat' =
                     [k \in DOMAIN previous_lat |->
                        IF k \in num_released .. num_released + n - 1
                        THEN 0 ELSE previous_lat[k]]
                /\ newly_seeded_IDs' =
                     IF n > 0
                     THEN num_released + 1 .. num_released + n
                     ELSE newly_seeded_IDs
                /\ num_released' = num_released + n
                /\ pc' = IF N + n = 0 THEN "skip" ELSE "age"
    /\ UNCHANGED <<calls, config, deactivated, u_velocity, v_velocity,
                   steps_calculation, seed_plan>>

\* the run has made the number of steps it was started for; config.steps
\* is None for a run of more steps than any bound
LastStep(cfg, steps) == cfg.steps # None /\ steps + 1 >= Val(cfg.steps)

\* self.steps_calculation += 1, counted up to MaxSteps
StepCount(steps) == IF steps < MaxSteps THEN steps + 1 ELSE steps

\* no active but scheduled elements: the timestep is skipped
Skip ==
    /\ pc = "skip"
    /\ steps_calculation' = StepCount(steps_calculation)
    /\ pc' = IF LastStep(config, steps_calculation) THEN "done" ELSE "release"
    /\ UNCHANGED <<calls, config, elements, deactivated, environment, previous_lon,
                   previous_lat, newly_seeded_IDs, u_velocity, v_velocity,
                   outcome, num_released, seed_plan>>

Age ==
    /\ pc = "age"
    /\ elements' = increase_age_and_retire(config, elements)
    /\ pc' = "seafloor"
    /\ UNCHANGED <<calls, config, deactivated, environment, previous_lon,
                   previous_lat, newly_seeded_IDs, u_velocity, v_velocity,
                   outcome, num_released, steps_calculation, seed_plan>>

\* interact_with_seafloor is called before and after the coastline check
Seafloor ==
    /\ pc \in {"seafloor", "seafloor2"}
    /\ elements' = interact_with_seafloor(config, elements)
    /\ outcome' =
         [i \in Slots |->
            [outcome[i] EXCEPT
                !.lifted = @ \/ elements'[i].z # elements[i].z]]
    /\ pc' = IF pc = "seafloor" THEN "environment" ELSE "remove"
    /\ UNCHANGED <<calls, config, deactivated, environment, previous_lon,
                   previous_lat, newly_seeded_IDs, u_velocity, v_velocity,
                   num_released, steps_calculation, seed_plan>>

\* get_environment: the land mask and the current at every slot
GetEnvironment ==
    /\ pc = "environment"
    /\ \E cur \in [Slots -> config.currents] :
        environment' =
            [land_binary_mask |->
                [i \in Slots |->
                    land_binary_mask(elements[i].lon, elements[i].lat)],
             x_sea_water_velocity |-> [i \in Slots |-> cur[i][1]],
             y_sea_water_velocity |-> [i \in Slots |-> cur[i][2]]]
    /\ pc' = "coastline"
    /\ UNCHANGED <<calls, config, elements, deactivated, previous_lon, previous_lat,
                   newly_seeded_IDs, u_velocity, v_velocity, outcome,
                   num_released, steps_calculation, seed_plan>>

Coastline ==
    /\ pc = "coastline"
    /\ LET r == interact_with_coastline(config, elements,
                    environment.land_binary_mask, previous_lon, previous_lat,
                    newly_seeded_IDs)
       IN  /\ elements' = r.elements
           /\ environment' =
                [environment EXCEPT !.land_binary_mask = r.land_binary_mask]
           /\ outcome' =
                [i \in Slots |->
                    [outcome[i] EXCEPT
                        !.reverted =
                            environment.land_binary_mask[i] = 1
                            /\ r.land_binary_mask[i] = 0]]
    /\ pc' = "seafloor2"
    /\ UNCHANGED <<calls, config, deactivated, previous_lon, previous_lat,
                   newly_seeded_IDs, u_velocity, v_velocity, num_released,
                   steps_calculation, seed_plan>>

\* remove_deactivated_elements, then store_present_positions()
Remove ==
    /\ pc = "remove"
    /\ LET keep == Where([i \in Slots |-> elements[i].status = "active"])
           kept == Compress(elements, keep)
       IN  /\ elements' = kept
           /\ deactivated' =
                [id \in DOMAIN deactivated |->
                    IF \E i \in Slots :
                          elements[i].ID = id /\ elements[i].status # "active"
                    THEN elements[CHOOSE i \in Slots :
                                    elements[i].ID = id].status
                    ELSE deactivated[id]]
           /\ environment' =
                [land_binary_mask |->
                    Compress(environment.land_binary_mask, keep),
                 x_sea_water_velocity |->
                    Compress(environment.x_sea_water_velocity, keep),
                 y_sea_water_velocity |->
                    Compress(environment.y_sea_water_velocity, keep)]
           /\ outcome' = Compress(outcome, keep)
           /\ previous_lon' =
                [k \in DOMAIN previous_lon |->
                    IF \E i \in DOMAIN kept : kept[i].ID - 1 = k
                    THEN kept[CHOOSE i \in DOMAIN kept : kept[i].ID - 1 = k].lon
                    ELSE previous_lon[k]]
           /\ previous_lat' =
                [k \in DOMAIN previous_lat |->
                    IF \E i \in DOMAIN kept : kept[i].ID - 1 = k
                    THEN kept[CHOOSE i \in DOMAIN kept : kept[i].ID - 1 = k].lat
                    ELSE previous_lat[k]]
           /\ newly_seeded_IDs' = None
           /\ pc' = IF Len(keep) > 0 THEN "advect"
                    ELSE IF num_released < NumElements THEN "skip"
                    ELSE "done"
    /\ UNCHANGED <<calls, config, u_velocity, v_velocity, num_released,
                   steps_calculation, seed_plan>>

(***************************************************************************)
(* update(): horizontal advection, orientation, vertical movement,         *)
(* settlement in habitat, mortality                                        *)
(***************************************************************************)
\* the step of update() that comes after step, "end" after the last one;
\* the lobster model checks the habitat before the vertical movement
SuccessorHabitatFirst(cfg, step) ==
    CASE step = "orient" -> "habitat"
      [] step = "habitat" -> "vertical"
      [] step = "vertical" -> "end"

Successor(cfg, step) ==
    IF cfg.variant = "lobster"
    THEN CASE step = "orient" -> "habitat"
           [] step = "habitat" -> "vertical"
           [] step = "vertical" -> "end"
    ELSE CASE step = "orient" -> "vertical"
           [] step = "vertical" -> "habitat"
           [] step = "habitat" -> "end"

\* control goes to the step after step, or the iteration ends
Goto(step) ==
    LET nxt == Successor(config, step)
    IN  /\ pc' = IF nxt # "end" THEN nxt
                 ELSE IF LastStep(config, steps_calculation) THEN "done"
                 ELSE "release"
        /\ steps_calculation' =
             IF nxt = "end" THEN StepCount(steps_calculation)
             ELSE steps_calculation

\* the first call of update(); the lobster model first reads
\* drift:direct_orientation, a key it does not register (it registers
\* drift:direct_orientation_habitat): get_config either rejects the key, and
\* update() ends there, or gives a value that is not True
Advect ==
    /\ pc = "advect"
    /\ IF config.variant = "lobster" /\ config.unknown_key_raises
       THEN /\ pc' = "aborted"
            /\ calls' = << >>
            /\ UNCHANGED elements
       ELSE /\ elements' = advect_ocean_current(elements, environment)
            /\ calls' = <<"advect_ocean_current">>
            /\ pc' = "orient"
    /\ UNCHANGED <<config, deactivated, environment, previous_lon,
                   previous_lat, newly_seeded_IDs, u_velocity, v_velocity,
                   outcome, num_released, steps_calculation, seed_plan>>

\* the slots for which a first-pass, resp. second-pass, sample is drawn
DrawsFirst(cfg, els) ==
    [j \in DOMAIN els |->
        IF cfg.orientation = "direct"
        THEN old_enough(cfg, els)[j]
             /\ ~(habitat_near(els[j].lon, els[j].lat)
                    > cfg.max_orient_distance)
        ELSE old_enough(cfg, els)[j]]

\* no sample is drawn in a second pass
NoSecondDraw(cfg, els) == [j \in DOMAIN els |-> FALSE]

DrawsSecond(cfg, els) ==
    [j \in DOMAIN els |->
        /\ cfg.orientation \in {"continuous_1", "continuous_2"}
        /\ els[j].age_seconds >= cfg.min_settlement_age_seconds
        /\ habitat_near(els[j].lon, els[j].lat) < cfg.max_orient_distance]

Samples(cfg, draws) ==
    {ti \in [DOMAIN draws -> VonMises(cfg)] :
        \A j \in DOMAIN draws : ~draws[j] => ti[j] = 0}

\* the slots for which the habitat-directed heading is computed
DirectHeading(cfg, els) ==
    IF cfg.orientation = "direct" THEN DrawsFirst(cfg, els)
    ELSE DrawsSecond(cfg, els)

\* a habitat-directed heading of this step is NaN: d is 0 / 0, so are mu,
\* theta and the velocity written, and update_positions moves the particle
\* to a NaN position; the model does not follow the run past that point
HeadingUndefined(cfg, els) ==
    \E j \in DOMAIN els :
        /\ DirectHeading(cfg, els)[j]
        /\ TurningStrength(cfg, habitat_near(els[j].lon, els[j].lat)).den = 0

\* the orientation method update() calls
OrientationMethod(cfg) ==
    CASE cfg.orientation = "direct" -> "direct_orientation_habitat"
      [] cfg.orientation = "rheotaxis" -> "rheotaxis_orientation"
      [] cfg.orientation = "cardinal" -> "cardinal_orientation"
      [] cfg.orientation \in {"continuous_1", "continuous_2"} ->
            "mix_orientation"

Orient ==
    /\ pc = "orient"
    /\ IF config.orientation = "none"
       THEN /\ Goto("orient")
            /\ UNCHANGED <<elements, u_velocity, v_velocity, outcome, calls>>
       ELSE IF OrientationRaises(config, elements)
       THEN /\ pc' = "aborted"
            /\ u_velocity' = reset_horizontal_swimming(elements)
            /\ v_velocity' = reset_horizontal_swimming(elements)
            /\ calls' = calls \o <<"reset_horizontal_swimming",
                                   OrientationMethod(config)>>
            /\ UNCHANGED <<elements, outcome, steps_calculation>>
       ELSE IF HeadingUndefined(config, elements)
       THEN /\ pc' = "nan"
            /\ u_velocity' = reset_horizontal_swimming(elements)
            /\ v_velocity' = reset_horizontal_swimming(elements)
            /\ calls' = calls \o <<"reset_horizontal_swimming",
                                   OrientationMethod(config)>>
            /\ UNCHANGED <<elements, outcome, steps_calculation>>
       ELSE \E ti \in Samples(config, DrawsFirst(config, elements)),
               ti2 \in Samples(config, DrawsSecond(config, elements)) :
                LET vel == Orientation(config, elements, environment,
                                       previous_lon, previous_lat, ti, ti2)
                IN  /\ u_velocity' = vel
                    /\ v_velocity' = vel
                    /\ elements' = update_positions(config, elements, vel, vel)
                    /\ outcome' =
                         [j \in Slots |->
                            [outcome[j] EXCEPT
                                !.draws =
                                    (IF DrawsFirst(config, elements)[j]
                                     THEN 1 ELSE 0)
                                    + (IF DrawsSecond(config, elements)[j]
                                       THEN 1 ELSE 0)]]
                    /\ calls' = calls \o <<"reset_horizontal_swimming",
                                           OrientationMethod(config)>>
                    /\ Goto("orient")
    /\ UNCHANGED <<config, deactivated, environment, previous_lon,
                   previous_lat, newly_seeded_IDs, num_released, seed_plan>>

\* drift:vertical_mixing selects vertical_mixing or vertical_buoyancy
MixingMethod(cfg) ==
    IF cfg.vertical_mixing THEN "vertical_mixing" ELSE "vertical_buoyancy"

\* the vertical part of update(): vertical_advection, vertical_swimming
\* when biology:OVM is set, then update_terminal_velocity and the mixing or
\* buoyancy; the lobster model has no vertical_swimming and advects last
Vertical ==
    /\ pc = "vertical"
    /\ \E dz \in [Slots -> config.vertical_moves] :
        IF config.variant = "lobster"
        THEN /\ elements' =
                  vertical_advection(vertical_buoyancy(elements), dz)
             /\ calls' = calls \o <<"update_terminal_velocity",
                                    MixingMethod(config),
                                    "vertical_advection">>
             /\ Goto("vertical")
        ELSE IF config.OVM
                /\ config.vertical_migration_speed_constant = None
        THEN /\ elements' = vertical_advection(elements, dz)
             /\ calls' = calls \o <<"vertical_advection",
                                    "vertical_swimming">>
             /\ pc' = "aborted"
             /\ UNCHANGED steps_calculation
        ELSE /\ elements' =
                  vertical_buoyancy(
                      IF config.OVM
                      THEN vertical_swimming(config,
                               vertical_advection(elements, dz))
                      ELSE vertical_advection(elements, dz))
             /\ calls' =
                  calls \o <<"vertical_advection">>
                        \o (IF config.OVM THEN <<"vertical_swimming">>
                            ELSE << >>)
                        \o <<"update_terminal_velocity",
                             MixingMethod(config)>>
             /\ Goto("vertical")
    /\ UNCHANGED <<config, deactivated, environment, previous_lon,
                   previous_lat, newly_seeded_IDs, u_velocity, v_velocity,
                   outcome, num_released, seed_plan>>

\* self.larval_mortality(), the last call of the fish model's update()
Mortality(cfg) ==
    IF cfg.variant = "lobster" THEN << >> ELSE <<"larval_mortality">>

Habitat ==
    /\ pc = "habitat"
    /\ IF config.settlement_in_habitat = TRUE
       THEN IF ~config.habitat_loaded
            THEN /\ pc' = "aborted"
                 /\ calls' = calls \o <<"interact_with_habitat">>
                 /\ UNCHANGED <<elements, environment, steps_calculation>>
            ELSE LET r == interact_with_habitat(config, elements,
                                environment.land_binary_mask)
                 IN  /\ elements' = r.elements
                     /\ environment' =
                          [environment EXCEPT
                              !.land_binary_mask = r.land_binary_mask]
                     /\ calls' = calls \o <<"interact_with_habitat">>
                                       \o Mortality(config)
                     /\ Goto("habitat")
       ELSE /\ calls' = calls \o Mortality(config)
            /\ Goto("habitat")
            /\ UNCHANGED <<elements, environment>>
    /\ UNCHANGED <<config, deactivated, previous_lon, previous_lat,
                   newly_seeded_IDs, u_velocity, v_velocity, outcome,
                   num_released, seed_plan>>

Next ==
    \/ Release
    \/ Skip
    \/ Age
    \/ Seafloor
    \/ GetEnvironment
    \/ Coastline
    \/ Remove
    \/ Advect
    \/ Orient
    \/ Vertical
    \/ Habitat

(***************************************************************************)
(* Configurations and initial states                                       *)
(***************************************************************************)
DefaultConfig ==
    [orientation |-> "none",
     min_settlement_age_seconds |-> 0,
     settlement_in_habitat |-> FALSE,
     beginning_orientation |-> 0,
     max_orient_distance |-> 0,
     cardinal_heading |-> 0,
     hatch_swimming_speed |-> 1,
     settle_swimming_speed |-> 4,
     max_age_seconds |-> Some(3),
     maximum_depth |-> None,
     validity_domain |-> None,
     seafloor_reader |-> TRUE,
     land_reader |-> TRUE,
     currents |-> ZonalCurrents,
     vertical_moves |-> {-1, 0, 1},
     turns |-> {-1, 0, 1},
     habitat_loaded |-> TRUE,
     variant |-> "fish",
     steps |-> Some(MaxSteps),
     unknown_key_raises |-> FALSE,
     OVM |-> FALSE,
     vertical_mixing |-> FALSE,
     vertical_migration_speed_constant |-> None,
     pre_flexion |-> 0,
     flexion |-> 0,
     post_flexion |-> 0,
     depth_early_stage |-> 0,
     depth_pre_flexion |-> 0,
     depth_flexion |-> 0,
     depth_post_flexion |-> 0]

InitWith(configs, plan) ==
    /\ config \in configs
    /\ seed_plan = plan
    /\ elements = EmptyArray
    /\ deactivated = [id \in 1 .. NumElements |-> "none"]
    /\ environment =
         [land_binary_mask |-> EmptyArray,
          x_sea_water_velocity |-> EmptyArray,
          y_sea_water_velocity |-> EmptyArray]
    \* np.ma.masked_all: no entry is read before it is stored; -1000 stands
    \* for the masked entry
    /\ previous_lon = [k \in 0 .. NumElements - 1 |-> -1000]
    /\ previous_lat = [k \in 0 .. NumElements - 1 |-> -1000]
    /\ newly_seeded_IDs = None
    /\ u_velocity = EmptyArray
    /\ v_velocity = EmptyArray
    /\ outcome = EmptyArray
    /\ num_released = 0
    /\ steps_calculation = 0
    /\ calls = << >>
    /\ pc = "release"

\* boundary and life-cycle configurations, without orientation
\* (min_settlement_age_seconds, max_age_seconds): no minimum age; a minimum
\* age that only a newly seeded particle is below; a minimum age reached in
\* the third step of a particle that does not die of age
SettlementAges == {<<0, Some(3)>>, <<2, Some(3)>>, <<3, None>>}

BoundaryConfigs ==
    {[DefaultConfig EXCEPT
        !.min_settlement_age_seconds = a[1],
        !.max_age_seconds = a[2],
        !.settlement_in_habitat = h,
        !.validity_domain = d,
        !.maximum_depth = Some(-1)] :
        a \in SettlementAges, h \in BOOLEAN,
        d \in {None, Some(<<Some(2), None, None, None>>)}}

BoundaryPlan == [lons |-> 0 .. MaxLon, depths |-> 0 .. MaxSeedDepth]

Init == InitWith(BoundaryConfigs, BoundaryPlan)

Spec == Init /\ [][Next]_vars

\* orientation configurations: every mode, with the orientation beginning at
\* once and the settlement age 2, or the orientation beginning at age 2 and
\* no settlement age, and a detection distance of 2; the current varies
\* where the orientation reads it and the water is still otherwise; no
\* vertical movement, no sea-floor reader, particles seeded at the surface
OrientConfigs ==
    {[DefaultConfig EXCEPT
        !.orientation = o,
        !.beginning_orientation = b,
        !.min_settlement_age_seconds = 2 - b,
        !.max_orient_distance = 2,
        !.currents = IF o \in {"rheotaxis", "continuous_1"}
                     THEN AllCurrents ELSE {<<0, 0>>},
        !.turns = IF o \in {"rheotaxis", "continuous_1"}
                  THEN {0, 1} ELSE {-1, 0, 1},
        !.vertical_moves = {0},
        !.seafloor_reader = FALSE] :
        o \in {"none", "direct", "rheotaxis", "cardinal", "continuous_1",
               "continuous_2"},
        b \in {0, 2}}

OrientPlan == [lons |-> 1 .. MaxLon, depths |-> {0}]

InitOrient == InitWith(OrientConfigs, OrientPlan)

SpecOrient == InitOrient /\ [][Next]_vars

\* runs of repeated timesteps, not stopped after a number of steps, with
\* drift:max_age_seconds configured
LiveConfigs ==
    {[c EXCEPT !.steps = None] :
        c \in {b \in BoundaryConfigs : b.max_age_seconds # None}}

InitLive == InitWith(LiveConfigs, BoundaryPlan)

\* every step of the run loop moves pc, so fairness on pc is fairness of
\* the loop
SpecLive == InitLive /\ [][Next]_vars /\ WF_pc(Next)

\* configurations of update(): both model variants, the vertical schedule
\* with thresholds in and out of order, and the fatal configurations
\* (pre_flexion, flexion, post_flexion)
Thresholds == {<<1, 2, 3>>, <<2, 1, 3>>, <<1, 3, 2>>, <<3, 2, 1>>, <<2, 2, 2>>}

\* validity domains <<W, E, S, N>> with each bound set or None
Domains ==
    {<<Some(2), Some(2), Some(0), Some(0)>>,
     <<Some(2), None, None, Some(0)>>,
     <<None, Some(2), Some(0), None>>,
     <<None, None, None, None>>}

UpdateBase ==
    [DefaultConfig EXCEPT
        !.settlement_in_habitat = TRUE,
        !.min_settlement_age_seconds = 2,
        !.vertical_moves = {0},
        !.depth_early_stage = 0,
        !.depth_pre_flexion = -1,
        !.depth_flexion = -2,
        !.depth_post_flexion = 0]

UpdateConfigs ==
    {[UpdateBase EXCEPT
        !.variant = "lobster",
        !.vertical_mixing = TRUE,
        !.settlement_in_habitat = h,
        !.unknown_key_raises = r] : h, r \in BOOLEAN}
    \cup {[UpdateBase EXCEPT
            !.orientation = "cardinal",
            !.turns = {0},
            !.settlement_in_habitat = h,
            !.OVM = h,
            !.vertical_migration_speed_constant = Some(1)] : h \in BOOLEAN}
    \cup {[UpdateBase EXCEPT !.vertical_mixing = m] : m \in BOOLEAN}
    \cup {[UpdateBase EXCEPT
            !.OVM = TRUE,
            !.vertical_migration_speed_constant = Some(1),
            !.pre_flexion = t[1],
            !.flexion = t[2],
            !.post_flexion = t[3]] : t \in Thresholds}
    \cup {[UpdateBase EXCEPT !.OVM = TRUE],
          [UpdateBase EXCEPT
            !.settlement_in_habitat = FALSE,
            !.orientation = "direct",
            !.max_orient_distance = 2,
            !.habitat_loaded = FALSE],
          [UpdateBase EXCEPT
            !.orientation = "rheotaxis",
            !.max_age_seconds = None]}
    \cup {[UpdateBase EXCEPT
            !.orientation = "direct",
            !.turns = {0},
            !.max_orient_distance = m] : m \in {0, 2}}
    \cup {[UpdateBase EXCEPT
            !.orientation = "cardinal",
            !.validity_domain = Some(d)] : d \in Domains}

UpdatePlan == [lons |-> 1 .. MaxLon, depths |-> 0 .. MaxSeedDepth]

InitUpdate == InitWith(UpdateConfigs, UpdatePlan)

SpecUpdate == InitUpdate /\ [][Next]_vars

(***************************************************************************)
(* Properties                                                              *)
(***************************************************************************)
\* the cause of particle id, "active" while it is in the batch and active,
\* "scheduled" before its release
StatusOf(id) ==
    IF \E i \in Slots : elements[i].ID = id
    THEN elements[CHOOSE i \in Slots : elements[i].ID = id].status
    ELSE IF id <= num_released THEN deactivated[id] ELSE "scheduled"

Terminal ==
    {"settled_on_coast", "settled_on_bottom", "home_sweet_home", "died",
     "outside", "seeded_on_land"}

Active(i) == elements[i].status = "active"

Below(i) == elements[i].z < -sea_floor_depth(elements)[i]

OldEnoughToSettle(i) ==
    elements[i].age_seconds >= config.min_settlement_age_seconds

\* the update() of an iteration has just ended
AfterUpdate == pc \in {"release", "done"} /\ steps_calculation > 0

\* the swim velocity of slot i is (0, 0)
ZeroVelocity(i) == u_velocity[i][1] = 0 /\ v_velocity[i][1] = 0

\* C1: after the orientation of a timestep, in every orientation mode, a
\* particle younger than biology:beginning_orientation has swim velocity
\* (0, 0), whatever the settlement age and the distance to the habitat.
C1_YoungHaveZeroVelocity ==
    (pc = "vertical" /\ config.orientation # "none")
        => \A i \in Slots :
              elements[i].age_seconds < config.beginning_orientation
                  => ZeroVelocity(i)

\* C2: the seafloor check lifts an active particle below the sea floor and
\* younger than the settlement age exactly to the sea floor and leaves it
\* active; with habitat-restricted settlement off it deactivates an active
\* particle below the sea floor and at or above that age with cause
\* settled_on_bottom.
C2_SeafloorByAge ==
    [][(pc \in {"seafloor", "seafloor2"} /\ config.seafloor_reader)
        => \A i \in Slots :
            /\ (Active(i) /\ Below(i) /\ ~OldEnoughToSettle(i))
                => /\ elements'[i].z = -sea_floor_depth(elements)[i]
                   /\ elements'[i].status = "active"
            /\ (Active(i) /\ Below(i) /\ OldEnoughToSettle(i)
                /\ ~config.settlement_in_habitat)
                => elements'[i].status = "settled_on_bottom"]_vars

\* a young particle has been lifted and stays active while another one has
\* settled on the bottom
C2_Witness ==
    /\ pc = "environment"
    /\ ~config.settlement_in_habitat
    /\ \E i, j \in Slots :
        /\ Active(i) /\ outcome[i].lifted /\ ~OldEnoughToSettle(i)
        /\ elements[i].z = -sea_floor_depth(elements)[i]
        /\ elements[j].status = "settled_on_bottom"

\* habitat-restricted settlement, or no minimum settlement age
RevertsAll ==
    config.settlement_in_habitat \/ config.min_settlement_age_seconds = 0

OnLand(i) == environment.land_binary_mask[i] = 1

\* the coastline check moves slot i back to its recorded position and
\* clears its mask
MovedBack(i) ==
    /\ elements'[i].lon = previous_lon[elements[i].ID - 1]
    /\ elements'[i].lat = previous_lat[elements[i].ID - 1]
    /\ environment'.land_binary_mask[i] = 0

NewlySeededOnLand(i) ==
    /\ newly_seeded_IDs # None
    /\ OnLand(i)
    /\ elements[i].age_seconds = TimeStep

\* C3 as stated: with habitat-restricted settlement or no minimum
\* settlement age, the coastline check moves every on-land particle back to
\* previous_lon/lat at index ID - 1, clears its mask and deactivates no
\* particle.
C3_NoDeactivationAtCoast ==
    [][(pc = "coastline" /\ RevertsAll)
        => \A i \in Slots :
            /\ OnLand(i) => MovedBack(i)
            /\ elements'[i].status = elements[i].status]_vars

\* C3 amended: ... and deactivates no particle other than a newly seeded
\* particle on land, which gets cause seeded_on_land (and is moved back as
\* well).
C3_RevertedNotSettled ==
    [][(pc = "coastline" /\ RevertsAll)
        => \A i \in Slots :
            /\ OnLand(i) => MovedBack(i)
            /\ elements'[i].status # elements[i].status
                => /\ NewlySeededOnLand(i)
                   /\ elements'[i].status = "seeded_on_land"
            /\ (Active(i) /\ ~NewlySeededOnLand(i))
                => elements'[i].status = "active"]_vars

\* a particle old enough to settle was moved back from land, to a position
\* recorded for its ID at another index than its slot, and is still active
C3_Witness ==
    /\ pc = "seafloor2"
    /\ RevertsAll
    /\ \E i \in Slots :
        /\ outcome[i].reverted /\ Active(i) /\ OldEnoughToSettle(i)
        /\ elements[i].ID - 1 # i
        /\ elements[i].lon = previous_lon[elements[i].ID - 1]
        /\ elements[i].age_seconds > TimeStep

AgeGated ==
    ~config.settlement_in_habitat /\ config.min_settlement_age_seconds > 0

\* C4 as stated: with habitat-restricted settlement off and a minimum
\* settlement age, the coastline check moves every on-land particle younger
\* than that age back and leaves it active, and deactivates every on-land
\* particle at or above that age with cause settled_on_coast without moving
\* it.
C4_AllOnLandByAge ==
    [][(pc = "coastline" /\ AgeGated)
        => \A i \in Slots :
            /\ (Active(i) /\ OnLand(i) /\ ~OldEnoughToSettle(i))
                => MovedBack(i) /\ elements'[i].status = "active"
            /\ (Active(i) /\ OnLand(i) /\ OldEnoughToSettle(i))
                => /\ elements'[i].status = "settled_on_coast"
                   /\ elements'[i].lon = elements[i].lon
                   /\ elements'[i].lat = elements[i].lat]_vars

\* C4 amended: the same for every on-land particle that is not newly
\* seeded; a newly seeded particle on land gets cause seeded_on_land (and is
\* moved back when it is younger than the settlement age).
C4_OnLandByAge ==
    [][(pc = "coastline" /\ AgeGated)
        => \A i \in Slots :
            /\ (Active(i) /\ OnLand(i) /\ ~OldEnoughToSettle(i))
                => /\ MovedBack(i)
                   /\ elements'[i].status =
                        IF NewlySeededOnLand(i) THEN "seeded_on_land"
                        ELSE "active"
            /\ (Active(i) /\ OnLand(i) /\ OldEnoughToSettle(i))
                => /\ elements'[i].status =
                        IF NewlySeededOnLand(i) THEN "seeded_on_land"
                        ELSE "settled_on_coast"
                   /\ elements'[i].lon = elements[i].lon
                   /\ elements'[i].lat = elements[i].lat
                   /\ environment'.land_binary_mask[i] = 1]_vars

\* after a coastline check, a young particle that is not newly seeded was
\* moved back and is active, and an old one has settled on the coast
C4_Witness ==
    /\ pc = "seafloor2"
    /\ AgeGated
    /\ \E i \in Slots :
        /\ outcome[i].reverted /\ Active(i) /\ ~OldEnoughToSettle(i)
        /\ elements[i].age_seconds > TimeStep
    /\ \E j \in Slots :
        /\ elements[j].status = "settled_on_coast"
        /\ ~outcome[j].reverted

InHabitat(i) == multiShp(elements[i].lon, elements[i].lat)

\* C5 as stated: with habitat-restricted settlement, a particle old enough
\* to settle and inside the habitat that is on land is not moved back in
\* place of being deactivated.
C5_HabitatBeforeClamp ==
    [][(pc = "coastline" /\ config.settlement_in_habitat)
        => \A i \in Slots :
            (Active(i) /\ OldEnoughToSettle(i) /\ InHabitat(i) /\ OnLand(i))
                => ~(/\ environment'.land_binary_mask[i] = 0
                     /\ elements'[i].status = "active")]_vars

\* C5 amended: with habitat-restricted settlement, a particle old enough to
\* settle and inside the habitat at the habitat check of the update gets
\* cause home_sweet_home, also when it is on land or below the sea floor
\* there, and the seafloor and coastline checks that follow leave that cause.
C5_HomeSweetHome ==
    [][/\ (pc = "habitat" /\ config.settlement_in_habitat)
            => \A i \in Slots :
                (Active(i) /\ OldEnoughToSettle(i) /\ InHabitat(i))
                    => /\ elements'[i].status = "home_sweet_home"
                       /\ environment'.land_binary_mask[i] = 6
       /\ pc \in {"age", "seafloor", "seafloor2", "environment", "coastline"}
            => \A i \in Slots :
                elements[i].status = "home_sweet_home"
                    => elements'[i].status = "home_sweet_home"]_vars

\* a particle that settled in the habitat while on land and below the sea
\* floor has since gone through the seafloor and coastline checks
C5_Witness ==
    /\ pc = "seafloor2"
    /\ config.settlement_in_habitat
    /\ \E i \in Slots :
        /\ elements[i].status = "home_sweet_home"
        /\ outcome[i].lifted
        /\ outcome[i].reverted

Particles == 1 .. NumElements

\* C6: when max_age_seconds is configured, a particle whose age equals it
\* after the aging step is deactivated with cause died by that step,
\* whatever its position, and keeps that cause.
C6_DiedAtMaxAge ==
    [][\A id \in Particles :
        /\ (/\ pc = "age"
            /\ config.max_age_seconds # None
            /\ \E i \in Slots :
                /\ elements[i].ID = id
                /\ Active(i)
                /\ elements[i].age_seconds + TimeStep
                     = Val(config.max_age_seconds))
            => StatusOf(id)' = "died"
        /\ StatusOf(id) = "died" => StatusOf(id)' = "died"]_vars

\* a particle died at the maximum age while outside the domain and inside
\* the habitat
C6_Witness ==
    /\ pc = "coastline"
    /\ config.validity_domain # None
    /\ \E i \in Slots :
        /\ elements[i].status = "died"
        /\ elements[i].age_seconds = Val(config.max_age_seconds)
        /\ WestOf(elements, Val(Val(config.validity_domain)[1]))[i]
        /\ InHabitat(i)

HasWestBound ==
    /\ config.validity_domain # None
    /\ Val(config.validity_domain)[1] # None

WestBound == Val(Val(config.validity_domain)[1])

ReachesMaxAgeNow(i) ==
    /\ config.max_age_seconds # None
    /\ elements[i].age_seconds + TimeStep >= Val(config.max_age_seconds)

\* C7 as stated: with a west bound W, the aging/culling step deactivates a
\* particle with lon < W with cause outside.
C7_AllWestOutside ==
    [][(pc = "age" /\ HasWestBound)
        => \A i \in Slots :
            (Active(i) /\ elements[i].lon < WestBound)
                => elements'[i].status = "outside"]_vars

\* C7 amended: with a west bound W, the aging/culling step deactivates with
\* cause outside a particle with lon < W that does not reach max_age_seconds
\* in that step (one that does gets cause died), also when it is neither on
\* land nor below the sea floor.
C7_WestOutside ==
    [][(pc = "age" /\ HasWestBound)
        => \A i \in Slots :
            (Active(i) /\ elements[i].lon < WestBound)
                => elements'[i].status =
                     IF ReachesMaxAgeNow(i) THEN "died" ELSE "outside"]_vars

\* a particle that drifted west of the bound, in water and above the sea
\* floor, is outside
C7_Witness ==
    /\ pc = "seafloor"
    /\ HasWestBound
    /\ \E i \in Slots :
        /\ elements[i].status = "outside"
        /\ elements[i].lon < WestBound
        /\ elements[i].age_seconds > TimeStep
        /\ land_binary_mask(elements[i].lon, elements[i].lat) = 0
        /\ ~Below(i)

CurrentSpeed(i) ==
    ISqrt(environment.x_sea_water_velocity[i]
            * environment.x_sea_water_velocity[i]
          + environment.y_sea_water_velocity[i]
            * environment.y_sea_water_velocity[i])

\* slot i gets its swim velocity from the rheotaxis computation
Rheotactic(i) ==
    /\ elements[i].age_seconds >= config.beginning_orientation
    /\ \/ config.orientation = "rheotaxis"
       \/ /\ config.orientation = "continuous_1"
          /\ ~DrawsSecond(config, elements)[i]

\* C8: in rheotaxis (also in the rheotaxis pass of continuous_1) the
\* magnitude of the swim velocity written for an eligible particle never
\* exceeds the local current speed, and equals it when the age-based swim
\* speed is at least the current speed.
C8_RheotaxisCapped ==
    [][(pc = "orient" /\ pc' = "vertical")
        => \A i \in Slots :
            Rheotactic(i)
                => /\ Abs(u_velocity'[i][1]) <= CurrentSpeed(i)
                   /\ Abs(swimming_speed(config, elements[i].age_seconds))
                        >= CurrentSpeed(i)
                        => Abs(u_velocity'[i][1]) = CurrentSpeed(i)
                   /\ v_velocity'[i] = u_velocity'[i]]_vars

\* after a rheotaxis orientation, one particle swims at its own speed in a
\* faster current and another one is capped to a slower, nonzero current
C8_Witness ==
    /\ pc = "vertical"
    /\ config.orientation = "rheotaxis"
    /\ \E i, j \in Slots :
        /\ elements[i].age_seconds >= config.beginning_orientation
        /\ u_velocity[i][1]
             = swimming_speed(config, elements[i].age_seconds)
        /\ u_velocity[i][1] < CurrentSpeed(i)
        /\ elements[j].age_seconds >= config.beginning_orientation
        /\ u_velocity[j][1] = CurrentSpeed(j)
        /\ u_velocity[j][1] > 0
        /\ u_velocity[j][1]
             < swimming_speed(config, elements[j].age_seconds)

\* C9: a particle whose status has become settled_on_coast,
\* settled_on_bottom, home_sweet_home, died, outside or seeded_on_land is
\* never active again, over every step of the run.
C9_TerminalOneWay ==
    [][\A id \in Particles :
        StatusOf(id) \in Terminal
            => StatusOf(id)' \notin {"active", "scheduled"}]_vars

\* a particle that died was afterwards moved back from land by the
\* coastline check
C9_Witness ==
    /\ pc = "seafloor2"
    /\ \E i \in Slots :
        /\ elements[i].status = "died"
        /\ outcome[i].reverted

\* C10: when drift:maximum_depth is configured, at the end of every update
\* no active particle is deeper than the configured maximum depth.
C10_NeverBelowMaximumDepth ==
    (AfterUpdate /\ config.maximum_depth # None)
        => \A i \in Slots :
            Active(i) => elements[i].z >= Val(config.maximum_depth)

\* the run fails on one of these configurations
FatalConfiguration ==
    \/ /\ config.orientation \in {"direct", "continuous_1", "continuous_2"}
       /\ ~config.habitat_loaded
    \/ /\ config.orientation # "none"
       /\ config.max_age_seconds = None
    \/ /\ config.OVM
       /\ config.vertical_migration_speed_constant = None

\* C11: a fatal configuration error aborts the run before any timestep
\* operation executes: when the run has failed on it, no particle has been
\* aged or moved from the position it was seeded at.
C11_AbortBeforeAnyTimestep ==
    (pc = "aborted" /\ FatalConfiguration)
        => /\ calls = << >>
           /\ \A i \in Slots :
                /\ elements[i].age_seconds = 0
                /\ elements[i].lon = previous_lon[elements[i].ID - 1]
                /\ elements[i].lat = previous_lat[elements[i].ID - 1]

\* slot i holds a particle released in this iteration
NewlySeeded(i) == elements[i].ID \in newly_seeded_IDs

\* C12: the coastline check deactivates a newly seeded particle that is on
\* land in its first timestep with cause seeded_on_land, in every
\* configuration of habitat-restricted settlement and of the settlement
\* age; it does not get cause settled_on_coast.
C12_SeededOnLand ==
    [][pc = "coastline"
        => \A i \in Slots :
            (Active(i) /\ OnLand(i) /\ NewlySeeded(i))
                => elements'[i].status = "seeded_on_land"]_vars

\* a newly seeded particle on land got cause seeded_on_land where the
\* settlement age decides between reversion and settled_on_coast
C12_Witness ==
    /\ pc = "seafloor2"
    /\ AgeGated
    /\ \E i \in Slots :
        /\ NewlySeeded(i)
        /\ land_binary_mask(previous_lon[elements[i].ID - 1],
                            previous_lat[elements[i].ID - 1]) = 1
        /\ elements[i].status = "seeded_on_land"

\* particle id is in the batch of particles in memory
InBatch(id) == \E i \in Slots : elements[i].ID = id

\* age_seconds of particle id of the batch
AgeOf(id) == elements[CHOOSE i \in Slots : elements[i].ID = id].age_seconds

\* C13: age_seconds of a particle never decreases and is never reset; the
\* ageing step adds exactly one timestep to every particle of the batch,
\* deactivated ones included, and no other operation changes an age.
C13_AgeOnlyByAgeing ==
    [][\A id \in Particles :
        (InBatch(id) /\ InBatch(id)')
            => AgeOf(id)' = AgeOf(id) + (IF pc = "age" THEN TimeStep ELSE 0)]_vars

\* the ageing step has just run on a batch holding a particle in its first
\* timestep and a deactivated particle of an earlier timestep
C13_Witness ==
    /\ pc = "seafloor"
    /\ \E i, j \in Slots :
        /\ elements[i].age_seconds = TimeStep
        /\ elements[j].age_seconds = 2 * TimeStep
        /\ elements[j].status = "home_sweet_home"

\* the previous positions of the batch, each read at index ID - 1
PreviousById(previous) == [j \in Slots |-> previous[elements[j].ID - 1]]

\* the orientation of this step writes a habitat-directed velocity to slot j
DirectedToHabitat(j) ==
    /\ pc = "orient"
    /\ config.orientation \in {"direct", "continuous_1", "continuous_2"}
    /\ ~OrientationRaises(config, elements)
    /\ IF config.orientation = "direct"
       THEN DrawsFirst(config, elements)[j]
       ELSE DrawsSecond(config, elements)[j]

\* C14: the habitat-directed orientation of the direct and continuous modes
\* computes the heading of a particle from its own previous position, the
\* one stored at index ID - 1, also when compaction has moved the particle
\* to a slot other than ID - 1.
C14_DirectionFromOwnPrevious ==
    [][\A j \in Slots :
        DirectedToHabitat(j)
            => \E ti \in VonMises(config) :
                u_velocity'[j] =
                    DirectVelocity(config, elements,
                                   PreviousById(previous_lon),
                                   PreviousById(previous_lat), j, ti)]_vars

\* the orientation of this step is a continuous one and slot j is eligible
ContinuousEligible(j) ==
    /\ pc = "orient"
    /\ config.orientation \in {"continuous_1", "continuous_2"}
    /\ ~OrientationRaises(config, elements)
    /\ elements[j].age_seconds >= config.beginning_orientation

\* velocity vel is a base velocity of slot j: rheotaxis for continuous_1,
\* cardinal for continuous_2, for some sample of the heading
IsBaseVelocity(j, vel) ==
    \E ti \in VonMises(config) :
        vel = IF config.orientation = "continuous_1"
              THEN RheotaxisVelocity(config, elements, environment, j, ti)
              ELSE CardinalVelocity(config, elements, j, ti)

\* velocity vel is a habitat-directed velocity of slot j for some sample
IsDirectVelocity(j, vel) ==
    \E ti \in VonMises(config) :
        vel = DirectVelocity(config, elements, previous_lon, previous_lat,
                             j, ti)

\* slot j is closer to a habitat centroid than the detection distance
WithinDetection(j) ==
    habitat_near(elements[j].lon, elements[j].lat)
        < config.max_orient_distance

Orienting ==
    /\ pc = "orient"
    /\ config.orientation # "none"
    /\ ~OrientationRaises(config, elements)

\* slot j has reached biology:beginning_orientation
Eligible(j) == elements[j].age_seconds >= config.beginning_orientation

\* C16 (as stated): in every orientation mode exactly one von Mises sample
\* is drawn per eligible particle per timestep, never none and never two.
C16_ExactlyOneDraw ==
    [][Orienting
        => \A j \in Slots : Eligible(j) => outcome'[j].draws = 1]_vars

\* C16 (amended): rheotaxis and cardinal draw one sample per eligible
\* particle; direct draws one per eligible particle that is not beyond the
\* detection distance and none for the others; the continuous modes draw
\* one per eligible particle in the first pass and one more for every
\* particle old enough to settle and within the detection distance.
C16_DrawsPerMode ==
    [][Orienting
        => \A j \in Slots :
            outcome'[j].draws =
                CASE config.orientation \in {"rheotaxis", "cardinal"} ->
                        IF Eligible(j) THEN 1 ELSE 0
                  [] config.orientation = "direct" ->
                        IF Eligible(j)
                           /\ habitat_near(elements[j].lon, elements[j].lat)
                                <= config.max_orient_distance
                        THEN 1 ELSE 0
                  [] OTHER ->
                        (IF Eligible(j) THEN 1 ELSE 0)
                        + (IF OldEnoughToSettle(j) /\ WithinDetection(j)
                           THEN 1 ELSE 0)]_vars

\* a continuous orientation has drawn two samples for an eligible particle
C16_Witness ==
    /\ pc = "vertical"
    /\ config.orientation \in {"continuous_1", "continuous_2"}
    /\ \E j \in Slots :
        /\ elements[j].age_seconds >= config.beginning_orientation
        /\ outcome[j].draws = 2

\* the age bands of the vertical schedule, numbered from the youngest, that
\* hold a particle of this age
BandsOf(age) ==
    {b \in 1 .. 4 :
        CASE b = 1 -> age < config.pre_flexion
          [] b = 2 -> age >= config.pre_flexion /\ age < config.flexion
          [] b = 3 -> age >= config.flexion /\ age < config.post_flexion
          [] b = 4 -> age >= config.post_flexion}

\* the target depth of a band
BandDepth(b) ==
    CASE b = 1 -> config.depth_early_stage
      [] b = 2 -> config.depth_pre_flexion
      [] b = 3 -> config.depth_flexion
      [] b = 4 -> config.depth_post_flexion

\* the vertical schedule runs in this step
Migrating ==
    /\ pc = "vertical"
    /\ config.variant = "fish"
    /\ config.OVM
    /\ config.vertical_migration_speed_constant # None

\* C17: for every age and every order of the thresholds pre_flexion,
\* flexion and post_flexion a particle is in exactly one of the four age
\* bands, and the vertical schedule sets its terminal_velocity to
\* -sign(z - target depth of that band) times the migration rate.
C17_ExactlyOneBand ==
    [][Migrating
        => \A i \in Slots :
            /\ Cardinality(BandsOf(elements[i].age_seconds)) = 1
            /\ \A b \in BandsOf(elements[i].age_seconds) :
                \E dz \in config.vertical_moves :
                    elements'[i].terminal_velocity =
                        TowardsDepth(elements[i].z + dz, BandDepth(b),
                            Abs(Val(config.vertical_migration_speed_constant)))]_vars

\* the causes of settlement outside a habitat
SettledOutsideHabitat == {"settled_on_bottom", "settled_on_coast"}

\* C18: with habitat-restricted settlement no particle ever gets cause
\* settled_on_bottom or settled_on_coast: the seafloor check lifts a
\* particle below the seafloor to z = -sea_floor_depth whatever its age,
\* and the coastline check moves a particle on land back to its previous
\* position.
C18_NoSettlementOutsideHabitat ==
    [][config.settlement_in_habitat
        => /\ \A id \in Particles : StatusOf(id)' \notin SettledOutsideHabitat
           /\ pc \in {"seafloor", "seafloor2"}
                => \A i \in Slots :
                    Below(i)
                        => elements'[i].z = -sea_floor_depth(elements)[i]
           /\ pc = "coastline"
                => \A i \in Slots : OnLand(i) => MovedBack(i)]_vars

\* with habitat-restricted settlement a particle old enough to settle in
\* its first timestep was lifted from below the seafloor and is still active
C18_Witness ==
    /\ config.settlement_in_habitat
    /\ pc \in {"environment", "remove"}
    /\ \E i \in Slots :
        /\ OldEnoughToSettle(i)
        /\ elements[i].age_seconds = TimeStep
        /\ outcome[i].lifted
        /\ elements[i].z = -sea_floor_depth(elements)[i]
        /\ Active(i)

\* particle id gets cause home_sweet_home in this step
SettlesInHabitat(id) ==
    /\ StatusOf(id) # "home_sweet_home"
    /\ StatusOf(id)' = "home_sweet_home"

\* C19: a particle gets cause home_sweet_home only at the habitat check,
\* with habitat-restricted settlement configured, at an age of at least
\* min_settlement_age_seconds and at a position inside the habitat; a
\* younger particle inside the habitat stays active, and with
\* habitat-restricted settlement off no particle gets home_sweet_home.
C19_HomeSweetHomeOnlyIf ==
    [][/\ \A id \in Particles :
            SettlesInHabitat(id)
                => /\ pc = "habitat"
                   /\ config.settlement_in_habitat
                   /\ \E i \in Slots :
                        /\ elements[i].ID = id
                        /\ OldEnoughToSettle(i)
                        /\ InHabitat(i)
       /\ pc = "habitat"
            => \A i \in Slots :
                (Active(i) /\ ~OldEnoughToSettle(i) /\ InHabitat(i))
                    => elements'[i].status = "active"
       /\ ~config.settlement_in_habitat
            => \A id \in Particles : StatusOf(id)' # "home_sweet_home"]_vars

\* after a habitat check a particle younger than the settlement age is
\* inside the habitat and active, and another particle has settled there
C19_Witness ==
    /\ AfterUpdate
    /\ config.settlement_in_habitat
    /\ \E i, j \in Slots :
        /\ Active(i)
        /\ ~OldEnoughToSettle(i)
        /\ InHabitat(i)
        /\ elements[j].status = "home_sweet_home"
        /\ OldEnoughToSettle(j)
        /\ InHabitat(j)

\* an update() has run to its end; an iteration that finds the batch empty
\* ends without calling update()
UpdateEnded == AfterUpdate /\ calls # << >>

\* the calls of the fish model's update() in the order of the claim
FishOrder ==
    <<"advect_ocean_current">>
    \o (IF config.orientation = "none" THEN << >>
        ELSE <<"reset_horizontal_swimming", OrientationMethod(config)>>)
    \o <<"vertical_advection">>
    \o (IF config.OVM THEN <<"vertical_swimming">> ELSE << >>)
    \o <<"update_terminal_velocity", MixingMethod(config)>>
    \o (IF config.settlement_in_habitat
        THEN <<"interact_with_habitat">> ELSE << >>)
    \o <<"larval_mortality">>

\* the calls of the lobster model's update()
LobsterOrder ==
    <<"advect_ocean_current">>
    \o (IF config.settlement_in_habitat
        THEN <<"interact_with_habitat">> ELSE << >>)
    \o <<"update_terminal_velocity", MixingMethod(config),
         "vertical_advection">>

\* C20 (as stated): the operations of update() run in the order horizontal
\* advection, reset and orientation, vertical advection, vertical schedule,
\* mixing or buoyancy, habitat check, mortality hook, and in both model
\* variants the habitat check comes after the mixing or buoyancy step.
C20_HabitatAfterMixing ==
    UpdateEnded
        => /\ config.variant = "fish" => calls = FishOrder
           /\ \A h, m \in DOMAIN calls :
                (/\ calls[h] = "interact_with_habitat"
                 /\ calls[m] \in {"vertical_mixing", "vertical_buoyancy"})
                    => m < h

\* C20 (amended): the fish model's update() runs in the order of the claim;
\* the lobster model's update() runs horizontal advection, the habitat
\* check when enabled, the mixing or buoyancy step and vertical advection
\* last, with no orientation, no vertical schedule and no mortality hook.
C20_OrderByVariant ==
    UpdateEnded
        => calls = IF config.variant = "fish" THEN FishOrder
                   ELSE LobsterOrder

\* an update() of the lobster model with the habitat check has ended
C20_Witness ==
    /\ UpdateEnded
    /\ config.variant = "lobster"
    /\ config.settlement_in_habitat
    /\ Len(calls) = 5

\* the orientation of this step evaluates swimming_speed for slot j: once
\* for every slot it computes a heading for
SpeedEvaluated(j) ==
    /\ Orienting
    /\ \/ DrawsFirst(config, elements)[j]
       \/ DrawsSecond(config, elements)[j]

Distance(j) == habitat_near(elements[j].lon, elements[j].lat)

\* the direct orientation runs to its end in this step
DirectMode ==
    /\ pc = "orient"
    /\ config.orientation = "direct"
    /\ ~OrientationRaises(config, elements)

\* C22: in direct mode a particle farther from the nearest habitat centroid
\* than max_orient_distance keeps the swim velocity (0, 0), and for every
\* particle whose direct heading is computed the turning strength
\* d = 1 - distance / max_orient_distance is defined with 0 <= d < 1.
C22_TurningStrengthInRange ==
    [][DirectMode
        => \A j \in Slots :
            /\ Distance(j) > config.max_orient_distance
                => /\ u_velocity'[j] = <<0, 0>>
                   /\ v_velocity'[j] = <<0, 0>>
            /\ DirectHeading(config, elements)[j]
                => LET d == TurningStrength(config, Distance(j))
                   IN  /\ d.den # 0
                       /\ 0 <= d.num
                       /\ d.num < d.den]_vars

\* bound k of the validity domain (1 west, 2 east, 3 south, 4 north) is
\* configured
HasBound(k) ==
    /\ config.validity_domain # None
    /\ Val(config.validity_domain)[k] # None

\* the configured bound k
Bound(k) == Val(Val(config.validity_domain)[k])

\* slot i is beyond a configured bound of the validity domain
BeyondConfiguredBound(i) ==
    \/ HasBound(1) /\ elements[i].lon < Bound(1)
    \/ HasBound(2) /\ elements[i].lon > Bound(2)
    \/ HasBound(3) /\ elements[i].lat < Bound(3)
    \/ HasBound(4) /\ elements[i].lat > Bound(4)

\* particle id gets cause outside in this step
Culled(id) == StatusOf(id) # "outside" /\ StatusOf(id)' = "outside"

\* C23: the domain culling tests each of the four bounds on its own and
\* only when it is configured: a particle gets cause outside only in the
\* aging/culling step and only when it is beyond a configured bound, never
\* on account of a bound that is None or without a validity domain, and an
\* active particle beyond a configured bound that does not die of age in
\* that step gets cause outside.
C23_OutsideOnlyByConfiguredBound ==
    [][/\ \A id \in Particles :
            Culled(id)
                => /\ pc = "age"
                   /\ \E i \in Slots :
                        elements[i].ID = id /\ BeyondConfiguredBound(i)
       /\ pc = "age"
            => \A i \in Slots :
                (Active(i) /\ BeyondConfiguredBound(i)
                 /\ ~ReachesMaxAgeNow(i))
                    => elements'[i].status = "outside"]_vars

\* with only the west and north bounds configured, a particle east of the
\* west bound and south of the north bound has gone through the culling
\* and is active, and another one was culled
C23_Witness ==
    /\ pc = "seafloor"
    /\ HasBound(1) /\ ~HasBound(2) /\ ~HasBound(3) /\ HasBound(4)
    /\ \E i, j \in Slots :
        /\ Active(i)
        /\ elements[i].lon > Bound(1)
        /\ elements[i].lat < Bound(4)
        /\ elements[j].status = "outside"
        /\ elements[j].lat > Bound(4)
        /\ elements[j].lon >= Bound(1)

\* what the coastline check does to a particle, from its land mask, its age
\* and the configuration alone
CoastlineOutcome(mask, age) ==
    IF ~config.land_reader \/ mask # 1 THEN "unchanged"
    ELSE IF age = TimeStep THEN "seeded_on_land"
    ELSE IF config.settlement_in_habitat THEN "reverted"
    ELSE IF age < config.min_settlement_age_seconds THEN "reverted"
    ELSE IF config.min_settlement_age_seconds = 0 THEN "reverted"
    ELSE "settled_on_coast"

\* what the seafloor check does to a particle, from its depth against the
\* seafloor, its age and the configuration alone
SeafloorOutcome(below, age) ==
    IF ~config.seafloor_reader \/ ~below THEN "unchanged"
    ELSE IF config.settlement_in_habitat THEN "lifted"
    ELSE IF age < config.min_settlement_age_seconds THEN "lifted"
    ELSE "settled_on_bottom"

\* what this step does to slot i
Resolution(i) ==
    IF elements'[i].status # "active" THEN elements'[i].status
    ELSE IF pc = "coastline" /\ MovedBack(i) /\ OnLand(i) THEN "reverted"
    ELSE IF pc # "coastline" /\ Below(i)
            /\ elements'[i].z = -sea_floor_depth(elements)[i]
         THEN "lifted"
    ELSE IF elements'[i] = elements[i]
            /\ environment'.land_binary_mask[i]
                 = environment.land_binary_mask[i]
         THEN "unchanged"
    ELSE "other"

C25_BuffersResetEachStep ==
    [][Orienting
        => /\ DOMAIN u_velocity' = DOMAIN elements
           /\ DOMAIN v_velocity' = DOMAIN elements
           /\ \A j \in Slots :
                (~DrawsFirst(config, elements)[j]
                 /\ ~DrawsSecond(config, elements)[j])
                    => /\ u_velocity'[j] = <<0, 0>>
                       /\ v_velocity'[j] = <<0, 0>>]_vars

\* after a compaction moved a particle to another slot, an orientation left
\* its velocity at zero while the batch is smaller than it was
C25_Witness ==
    /\ pc = "vertical"
    /\ config.orientation # "none"
    /\ N < num_released
    /\ \E j \in Slots :
        /\ elements[j].ID - 1 # j
        /\ outcome[j].draws = 0
        /\ u_velocity[j] = <<0, 0>>

\* C26: when the coastline check has run, in every configuration, no
\* particle that is still active has land mask 1: each particle on land was
\* moved back with its mask cleared or deactivated.
C26_NoActiveOnLand ==
    [][pc = "coastline"
        => \A i \in Slots :
            elements'[i].status = "active"
                => environment'.land_binary_mask[i] # 1]_vars

\* the coastline check has run on a particle on land that it moved back and
\* on one that it deactivated, which keeps land mask 1
C26_Witness ==
    /\ pc = "seafloor2"
    /\ \E i, j \in Slots :
        /\ Active(i)
        /\ outcome[i].reverted
        /\ environment.land_binary_mask[i] = 0
        /\ ~Active(j)
        /\ environment.land_binary_mask[j] = 1

\* C27: when the seafloor check has run, in every configuration, no
\* particle that is still active is below the seafloor, and a second
\* seafloor check on the result changes no z and no status.
\* a seafloor check on the batch this step produces leaves it as it is
SecondCheckChangesNothing ==
    interact_with_seafloor(config, elements') = elements'

C27_SeafloorResolved ==
    [][(pc = "seafloor" \/ pc = "seafloor2")
        => /\ \A i \in DOMAIN elements' :
                elements'[i].status = "active"
                    => elements'[i].z >= -sea_floor_depth(elements')[i]
           /\ SecondCheckChangesNothing]_vars

\* the seafloor check has lifted a particle that is still active and
\* settled another one, which stays below the seafloor
C27_Witness ==
    /\ pc \in {"environment", "remove"}
    /\ \E i, j \in Slots :
        /\ Active(i)
        /\ outcome[i].lifted
        /\ elements[i].z = -sea_floor_depth(elements)[i]
        /\ elements[j].status = "settled_on_bottom"
        /\ Below(j)

\* every scheduled particle has been released
SeedingStopped == num_released = NumElements

\* no particle of the batch is active
NoActive == \A i \in Slots : elements[i].status # "active"

\* C28: with drift:max_age_seconds configured and a positive timestep,
\* under repeated timesteps every particle is eventually deactivated: once
\* seeding has stopped the number of active particles reaches zero.
C28_EventuallyNoActive ==
    (SeedingStopped /\ config.max_age_seconds # None) ~> NoActive

\* the run has ended with every particle released and deactivated, one of
\* them of age in a timestep later than the step bound of the other runs
C28_Witness ==
    /\ pc = "done"
    /\ SeedingStopped
    /\ N = 0
    /\ steps_calculation = MaxSteps
    /\ \E id \in Particles : deactivated[id] = "died"

\* a continuous orientation runs in this step and slot j has reached both
\* biology:beginning_orientation and biology:min_settlement_age_seconds
OldEnoughOnBothCounts(j) ==
    /\ pc = "orient"
    /\ config.orientation \in {"continuous_1", "continuous_2"}
    /\ elements[j].age_seconds >= config.beginning_orientation
    /\ elements[j].age_seconds >= config.min_settlement_age_seconds

\* the configuration with the direct mode in place of the mode configured
InDirectMode == [config EXCEPT !.orientation = "direct"]

\* C29: for a particle that has reached both beginning_orientation and
\* min_settlement_age_seconds, the continuous modes compute the
\* habitat-directed heading exactly when the direct mode would for the same
\* distance and max_orient_distance, also at a distance equal to
\* max_orient_distance.
C29_SameDetectionRange ==
    \A j \in Slots :
        OldEnoughOnBothCounts(j)
            => (DirectHeading(config, elements)[j]
                    <=> DirectHeading(InDirectMode, elements)[j])

\* the orientation step of update() runs to its end
OrientationStep ==
    /\ pc = "orient"
    /\ pc' # "aborted"
    /\ pc' # "nan"

\* slot j moves in this step by k times the displacement of the swim
\* velocity the step leaves in the buffers
MovedBySwim(j, k) ==
    IF k = 0
    THEN /\ elements'[j].lon = elements[j].lon
         /\ elements'[j].lat = elements[j].lat
    ELSE /\ elements'[j].lon - elements[j].lon
              = k * Sgn(u_velocity'[j][1])
                  * CosSign(config, u_velocity'[j][2])
         /\ elements'[j].lat - elements[j].lat
              = k * Sgn(v_velocity'[j][1])
                  * SinSign(config, v_velocity'[j][2])

\* the number of times the orientation of the mode applies the swim
\* displacement
SwimApplications == IF config.orientation = "none" THEN 0 ELSE 1

\* C30: in each timestep the swim displacement is applied exactly once when
\* the orientation mode is direct, rheotaxis, cardinal, continuous_1 or
\* continuous_2 and not at all when it is none; after the advection
\* update() changes lon/lat in no other way.
C30_SwimAppliedOnce ==
    [][/\ OrientationStep
            => \A j \in Slots : MovedBySwim(j, SwimApplications)
       /\ (pc = "vertical" \/ pc = "habitat")
            => \A j \in Slots :
                /\ elements'[j].lon = elements[j].lon
                /\ elements'[j].lat = elements[j].lat]_vars

\* a cardinal orientation in still water has moved a particle away from
\* the position stored before update()
C30_Witness ==
    /\ pc = "vertical"
    /\ config.orientation = "cardinal"
    /\ \E j \in Slots :
        /\ u_velocity[j][1] > 0
        /\ environment.x_sea_water_velocity[j] = 0
        /\ environment.y_sea_water_velocity[j] = 0
        /\ \/ elements[j].lon # previous_lon[elements[j].ID - 1]
           \/ elements[j].lat # previous_lat[elements[j].ID - 1]

====
